---------------------------- MODULE Spec2Model ----------------------------
(***************************************************************************)
(* Model of the interaction features of rnacanvas.draw.svg.interact:       *)
(*   ClickSelectTool      (src/src/ClickSelectTool.ts)                     *)
(*   SelectingRect        (src/src/SelectingRect.ts)                       *)
(*   PinchToScaleFeature  (src/src/PinchToScaleFeature.ts)                 *)
(* ClickSelectTool and SelectingRect are constructed on the same target    *)
(* SVG document and share one live set of selected SVG elements.  Both     *)
(* register their listeners on window, so one mousedown event runs the     *)
(* mouse down handlers of both tools before any other event is delivered.  *)
(* The browser delivers mouse events in any order (a second button can go  *)
(* down before the first is released).                                     *)
(*                                                                         *)
(* Spec is the behaviour of the two selection tools under mouse events;    *)
(* SpecPinchToScale is the behaviour of PinchToScaleFeature under wheel    *)
(* events and assignments to its settable properties.  The features do     *)
(* not call into each other.                                               *)
(***************************************************************************)
EXTENDS Integers, FiniteSets, Sequences, TLC

(***************************************************************************)
(* Bounds of the model: the document coordinates of mouse events range     *)
(* over 0..MaxX by 0..MaxY, where MaxY is the height of the elements of    *)
(* the document, and at most MaxWheels wheel events are responded to.      *)
(***************************************************************************)
MaxX == 1
MaxY == 1
MaxWheels == 2

(***************************************************************************)
(* The DOM.  "svg" is the target SVG document.  "a" and "g" are direct     *)
(* graphical children, "n" is nested inside the group "g", "style" is a    *)
(* direct child that is not an SVGGraphicsElement, "out" is a graphical    *)
(* element of another document and "div" is an HTML element outside.       *)
(* "a" fills the unit square; "n", and so "g", is the vertical line on     *)
(* the right side of that square.                                          *)
(***************************************************************************)
targetSVGDoc == "svg"

Nodes == {"svg", "a", "g", "n", "style", "out", "div"}

parentNode(node) ==
  CASE node \in {"a", "g", "style"} -> "svg"
    [] node = "n" -> "g"
    [] OTHER -> "none"

\* value instanceof SVGGraphicsElement
isSVGGraphicsElements(value) == value \in {"svg", "a", "g", "n", "out"}

\* Node.contains: the node itself or one of its descendants
contains(ancestor, node) ==
  \/ node = ancestor
  \/ parentNode(node) = ancestor
  \/ parentNode(node) # "none" /\ parentNode(parentNode(node)) = ancestor

\* Element.children: the direct child elements
children(node) == {c \in Nodes : parentNode(c) = node}

\* SVGGraphicsElement.getBBox, in document coordinates
getBBox(ele) ==
  CASE ele = "a" -> [x |-> 0, y |-> 0, width |-> 1, height |-> 1]
    [] ele = "g" -> [x |-> 1, y |-> 0, width |-> 0, height |-> 1]
    [] ele = "n" -> [x |-> 1, y |-> 0, width |-> 0, height |-> 1]
    [] OTHER -> [x |-> 0, y |-> 0, width |-> 1, height |-> 1]

(***************************************************************************)
(* The coordinate system of the target SVG document: client coordinates    *)
(* are document coordinates scaled and offset by the position of the       *)
(* document in the viewport.                                               *)
(***************************************************************************)
targetSVGDocCoordinateSystem ==
  [clientLeft |-> 7, clientTop |-> 5, horizontalScaling |-> 2, verticalScaling |-> 3]

fromClientX(clientX) ==
  (clientX - targetSVGDocCoordinateSystem.clientLeft)
    \div targetSVGDocCoordinateSystem.horizontalScaling

fromClientY(clientY) ==
  (clientY - targetSVGDocCoordinateSystem.clientTop)
    \div targetSVGDocCoordinateSystem.verticalScaling

ClientXs ==
  {targetSVGDocCoordinateSystem.clientLeft
     + targetSVGDocCoordinateSystem.horizontalScaling * k : k \in 0..MaxX}

ClientYs ==
  {targetSVGDocCoordinateSystem.clientTop
     + targetSVGDocCoordinateSystem.verticalScaling * k : k \in 0..MaxY}

(***************************************************************************)
(* Mouse events.  A mouse down lands on the target SVG document, on an     *)
(* element inside of it, on a graphical element outside of it or on a node *)
(* that is not graphical.  The mouse move and mouse up handlers never read *)
(* event.target, so those events carry one target.                         *)
(***************************************************************************)
MouseEvent(targets) ==
  [target : targets, shiftKey : BOOLEAN, clientX : ClientXs, clientY : ClientYs]

MouseDownTargets == {"svg", "a", "out", "div"}

undefined == [target |-> "none", shiftKey |-> FALSE, clientX |-> 0, clientY |-> 0]

(***************************************************************************)
(* Boxes (@rnacanvas/boxes).                                               *)
(***************************************************************************)
SetMin(S) == CHOOSE m \in S : \A k \in S : m <= k
SetMax(S) == CHOOSE m \in S : \A k \in S : m >= k

\* Box.bounding: the smallest box that bounds all of the given boxes
BoxBounding(boxes) ==
  LET minX == SetMin({b.x : b \in boxes})
      minY == SetMin({b.y : b \in boxes})
      maxX == SetMax({b.x + b.width : b \in boxes})
      maxY == SetMax({b.y + b.height : b \in boxes})
  IN  [x |-> minX, y |-> minY, width |-> maxX - minX, height |-> maxY - minY]

\* Box.isBoundedBy: no side of the box lies outside of the other box
isBoundedBy(box, other) ==
  /\ box.x >= other.x
  /\ box.y >= other.y
  /\ box.x + box.width <= other.x + other.width
  /\ box.y + box.height <= other.y + other.height

(***************************************************************************)
(* Numbers (PinchToScaleFeature).  A JavaScript number is modelled as an    *)
(* exact fraction num/den in lowest terms with den > 0, as NaN, or as an    *)
(* infinity whose sign is num.  Rounding of doubles is not modelled.       *)
(***************************************************************************)
Abs(n) == IF n < 0 THEN -n ELSE n

Sign(n) == IF n < 0 THEN -1 ELSE IF n > 0 THEN 1 ELSE 0

RECURSIVE GCD(_, _)
GCD(m, n) == IF n = 0 THEN m ELSE GCD(n, m % n)

\* the number num/den, for den # 0
Fraction(num, den) ==
  LET g == GCD(Abs(num), Abs(den))
  IN  [kind |-> "finite", num |-> Sign(den) * (num \div g), den |-> Abs(den) \div g]

Whole(n) == Fraction(n, 1)

NaN == [kind |-> "NaN", num |-> 0, den |-> 1]

Infinity(sign) == [kind |-> "Infinity", num |-> sign, den |-> 1]

\* Number.isFinite
isFinite(value) == value.kind = "finite"

\* a * b
Times(a, b) ==
  IF a.kind = "NaN" \/ b.kind = "NaN" THEN NaN
  ELSE IF isFinite(a) /\ isFinite(b)
    THEN LET g == GCD(Abs(a.num), b.den)
             h == GCD(Abs(b.num), a.den)
         IN  Fraction((a.num \div g) * (b.num \div h),
                      (a.den \div h) * (b.den \div g))
  ELSE IF a.num = 0 \/ b.num = 0 THEN NaN
  ELSE Infinity(Sign(a.num) * Sign(b.num))

\* a / b
Over(a, b) ==
  IF a.kind = "NaN" \/ b.kind = "NaN" THEN NaN
  ELSE IF isFinite(a) /\ isFinite(b)
    THEN IF b.num # 0
           THEN Times(a, Fraction(b.den, b.num))
           ELSE IF a.num = 0 THEN NaN ELSE Infinity(Sign(a.num))
  ELSE IF isFinite(a) THEN Whole(0)
  ELSE IF isFinite(b) THEN Infinity(IF b.num < 0 THEN -a.num ELSE a.num)
  ELSE NaN

\* a - b
Minus(a, b) ==
  IF a.kind = "NaN" \/ b.kind = "NaN" THEN NaN
  ELSE IF isFinite(a) /\ isFinite(b)
    THEN Fraction(a.num * b.den - b.num * a.den, a.den * b.den)
  ELSE IF isFinite(a) THEN Infinity(-b.num)
  ELSE IF isFinite(b) THEN a
  ELSE IF a.num = b.num THEN NaN ELSE a

\* a < b, which is false when either is NaN
LessThan(a, b) ==
  /\ a.kind # "NaN"
  /\ b.kind # "NaN"
  /\ IF isFinite(a) /\ isFinite(b) THEN a.num * b.den < b.num * a.den
     ELSE IF isFinite(a) THEN b.num > 0
     ELSE IF isFinite(b) THEN a.num < 0
     ELSE a.num < b.num

\* clamp of @rnacanvas/math: the value, or the bound that it lies beyond
clamp(value, min, max) ==
  IF LessThan(value, min) THEN min
  ELSE IF LessThan(max, value) THEN max
  ELSE value

(***************************************************************************)
(* PinchToScaleFeature (src/src/PinchToScaleFeature.ts).  The file holds    *)
(* three revisions of the class:                                           *)
(*   "settable"    scrollbars and interaction scope are settable           *)
(*                 properties (lines 45-123)                               *)
(*   "heightBased" scrollbars are given to the constructor and the change  *)
(*                 factor depends on the client height of the document     *)
(*                 (lines 169-230)                                         *)
(*   "injected"    scrollbars are given to the constructor (lines 276-341) *)
(***************************************************************************)
Revisions == {"settable", "heightBased", "injected"}

\* the limit of the wheel delta
deltaYLimit == 25

\* the divisor of the wheel delta in the change factor
deltaYDivisor == 150

\* the multiplier of the wheel delta in the height based change factor
deltaYMultiplier == 5

\* the largest scaling
maxScaling == 500

\* the smallest scaling
minScaling(rev) == IF rev = "injected" THEN Fraction(1, 10) ELSE Fraction(1, 100)

\* the height of the view box of the target SVG document
targetSVGDocViewBox == [width |-> 200, height |-> 125]

\* targetSVGDoc.getBoundingClientRect().height: the scaled height of the document
clientHeight(currentScaling) ==
  Times(Whole(targetSVGDocViewBox.height), currentScaling)

(***************************************************************************)
(* Wheel events.  "window" is an event target that is not a Node.          *)
(***************************************************************************)
WheelTargets == {"svg", "n", "div", "window"}

DeltaYs == {-150, -25, 15, 25, 150}

WheelEvent == [ctrlKey : BOOLEAN, target : WheelTargets, deltaY : DeltaYs]

noWheel == [ctrlKey |-> FALSE, target |-> "none", deltaY |-> 0]

\* the scalings, scrollbars and scopes that the feature can meet
InitialScalings ==
  {Fraction(1, 100), Whole(2), Whole(500), NaN, Infinity(1)}

noScrollbar == [defined |-> FALSE, center |-> Whole(0)]

Scrollbar(center) == [defined |-> TRUE, center |-> Whole(center)]

HorizontalScrollbars == {Scrollbar(60)}

VerticalScrollbars == {Scrollbar(40)}

InteractionScopes == {"svg", "g"}

VARIABLES
  selectedSVGElements,  \* the live set shared by both tools
  lastMouseDown,        \* SelectingRect.lastMouseDown
  lastMouseDownX,       \* SelectingRect.lastMouseDownX
  lastMouseDownY,       \* SelectingRect.lastMouseDownY
  mouseIsDown,          \* SelectingRect.mouseIsDown
  isDrawn,              \* SelectingRect.isDrawn
  domNode,              \* SelectingRect.domNode: its visibility and d attribute
  last                  \* history: the event handled last and what it met

VARIABLES
  revision,             \* which of the three PinchToScaleFeature classes was constructed
  scaling,              \* targetSVGDocCoordinateSystem.horizontalScaling
  horizontalScrollbar,  \* PinchToScaleFeature.horizontalScrollbar and its thumb.centerX
  verticalScrollbar,    \* PinchToScaleFeature.verticalScrollbar and its thumb.centerY
  interactionScope,     \* PinchToScaleFeature.interactionScope
  wheels,               \* how many wheel events were responded to
  lastWheel             \* history: the wheel event handled last and what it met

mouseVars ==
  <<selectedSVGElements, lastMouseDown, lastMouseDownX, lastMouseDownY,
    mouseIsDown, isDrawn, domNode, last>>

pinchVars ==
  <<revision, scaling, horizontalScrollbar, verticalScrollbar, interactionScope,
    wheels, lastWheel>>

vars == <<mouseVars, pinchVars>>

(***************************************************************************)
(* History.  op is the kind of the event handled last, event is that event *)
(* (for a mouse up only where it happened, for a mouse move nothing),      *)
(* before is the selection it met and wasDrawn is isDrawn as it met it.    *)
(* For a mouse down that directly follows a mouse down on the same target   *)
(* with the same shift key, twice holds the selection that the earlier     *)
(* mouse down met.                                                         *)
(***************************************************************************)
notTwice == [is |-> FALSE, before |-> {}]

Twice(op, event) ==
  IF /\ op = "mousedown"
     /\ last.op = "mousedown"
     /\ last.event.target = event.target
     /\ last.event.shiftKey = event.shiftKey
    THEN [is |-> TRUE, before |-> last.before]
    ELSE notTwice

Where(event) ==
  [target |-> "none", shiftKey |-> FALSE,
   clientX |-> event.clientX, clientY |-> event.clientY]

Handled(op, event) ==
  [op |-> op, event |-> event, before |-> selectedSVGElements, wasDrawn |-> isDrawn,
   twice |-> Twice(op, event)]

InitMouse ==
  /\ selectedSVGElements = {}
  /\ lastMouseDown = undefined
  /\ lastMouseDownX = 0
  /\ lastMouseDownY = 0
  /\ mouseIsDown = FALSE
  /\ isDrawn = FALSE
  /\ domNode = [visibility |-> "hidden", d |-> <<>>]
  /\ last = [op |-> "init", event |-> undefined, before |-> {}, wasDrawn |-> FALSE,
             twice |-> notTwice]

\* both tools right after construction; the document keeps its scaling, as no
\* wheel event is delivered
Init ==
  /\ InitMouse
  /\ revision = "settable"
  /\ scaling = Whole(targetSVGDocCoordinateSystem.horizontalScaling)
  /\ horizontalScrollbar = noScrollbar
  /\ verticalScrollbar = noScrollbar
  /\ interactionScope = targetSVGDoc
  /\ wheels = 0
  /\ lastWheel = [op |-> "init", event |-> noWheel, defaultPrevented |-> FALSE,
                  scaling |-> scaling,
                  horizontalScrollbar |-> horizontalScrollbar,
                  verticalScrollbar |-> verticalScrollbar]

(***************************************************************************)
(* Faulty variants of ClickSelectTool.handleMouseDown, each one slip away   *)
(* from the code.  Each property of ClickSelectTool below fails for one.   *)
(***************************************************************************)
ClickSelectVariant(selected, event, slip) ==
  IF event.target = targetSVGDoc
    THEN IF ~event.shiftKey \/ slip = "surfaceIgnoresShift" THEN {} ELSE selected
  ELSE IF ~isSVGGraphicsElements(event.target)
    THEN selected
  ELSE IF ~contains(targetSVGDoc, event.target) /\ slip # "noContainsCheck"
    THEN selected
  ELSE IF event.target \in selected
    THEN IF event.shiftKey
           THEN (IF slip = "shiftClickClears" THEN {}
                 ELSE IF slip = "shiftClickKeeps" THEN selected
                 ELSE selected \ {event.target})
           ELSE (IF slip = "alwaysReplaces" THEN {event.target} ELSE selected)
  ELSE (IF (~event.shiftKey /\ slip # "neverClears") \/ slip = "addIgnoresShift"
          THEN {} ELSE selected) \cup {event.target}

\* adds the clicked element without clearing the selection first
ClickSelect_neverClears(selected, event) ==
  ClickSelectVariant(selected, event, "neverClears")

\* a shift click on a selected element empties the selection
ClickSelect_shiftClickClears(selected, event) ==
  ClickSelectVariant(selected, event, "shiftClickClears")

\* a shift click on a selected element leaves it selected
ClickSelect_shiftClickKeeps(selected, event) ==
  ClickSelectVariant(selected, event, "shiftClickKeeps")

\* a click on an unselected element clears the selection even with shift held
ClickSelect_addIgnoresShift(selected, event) ==
  ClickSelectVariant(selected, event, "addIgnoresShift")

\* a click without shift on a selected element replaces the selection by it
ClickSelect_alwaysReplaces(selected, event) ==
  ClickSelectVariant(selected, event, "alwaysReplaces")

\* a click on the document clears the selection even with shift held
ClickSelect_surfaceIgnoresShift(selected, event) ==
  ClickSelectVariant(selected, event, "surfaceIgnoresShift")

\* elements outside of the target SVG document are not ignored
ClickSelect_noContainsCheck(selected, event) ==
  ClickSelectVariant(selected, event, "noContainsCheck")

(***************************************************************************)
(* ClickSelectTool.handleMouseDown, as the set that selectedSVGElements    *)
(* holds when it returns.                                                  *)
(***************************************************************************)
ClickSelectTool_handleMouseDown(selected, event) ==
  IF event.target = targetSVGDoc
    THEN IF ~event.shiftKey THEN {} ELSE selected
  ELSE IF ~isSVGGraphicsElements(event.target)
    THEN selected
  ELSE IF ~contains(targetSVGDoc, event.target)
    THEN selected
  ELSE IF event.target \in selected
    THEN IF event.shiftKey THEN selected \ {event.target} ELSE selected
  ELSE (IF ~event.shiftKey THEN {} ELSE selected) \cup {event.target}

(***************************************************************************)
(* SelectingRect.handleMouseDown, on the fields of both tools.             *)
(***************************************************************************)
\* the fields of both tools and the selection that they share
Tools ==
  [selectedSVGElements |-> selectedSVGElements,
   lastMouseDown |-> lastMouseDown,
   lastMouseDownX |-> lastMouseDownX,
   lastMouseDownY |-> lastMouseDownY,
   mouseIsDown |-> mouseIsDown,
   isDrawn |-> isDrawn,
   domNode |-> domNode]

\* faulty variant: a mouse down without shift also clears the selection
SelectingRect_handleMouseDown_clears(tools, event) ==
  [tools EXCEPT !.lastMouseDown = event,
                !.lastMouseDownX = fromClientX(event.clientX),
                !.lastMouseDownY = fromClientY(event.clientY),
                !.mouseIsDown = TRUE,
                !.selectedSVGElements = IF event.shiftKey THEN @ ELSE {}]

SelectingRect_handleMouseDown(tools, event) ==
  [tools EXCEPT !.lastMouseDown = event,
                !.lastMouseDownX = fromClientX(event.clientX),
                !.lastMouseDownY = fromClientY(event.clientY),
                !.mouseIsDown = TRUE]

(***************************************************************************)
(* window mousedown.  Both tools listen on window; the listener of the     *)
(* tool that was constructed first runs first.                             *)
(***************************************************************************)
ListenerOrders ==
  {<<"ClickSelectTool", "SelectingRect">>, <<"SelectingRect", "ClickSelectTool">>}

\* the mouse down listener of one tool
listener(tool, tools, event) ==
  IF tool = "ClickSelectTool"
    THEN [tools EXCEPT !.selectedSVGElements =
                         ClickSelectTool_handleMouseDown(@, event)]
    ELSE SelectingRect_handleMouseDown(tools, event)

\* both mouse down listeners, one after the other
dispatch(order, tools, event) ==
  listener(order[2], listener(order[1], tools, event), event)

mousedown ==
  \E event \in MouseEvent(MouseDownTargets) :
    \E after \in {dispatch(order, Tools, event) : order \in ListenerOrders} :
      /\ selectedSVGElements' = after.selectedSVGElements
      /\ lastMouseDown' = after.lastMouseDown
      /\ lastMouseDownX' = after.lastMouseDownX
      /\ lastMouseDownY' = after.lastMouseDownY
      /\ mouseIsDown' = after.mouseIsDown
      /\ isDrawn' = after.isDrawn
      /\ domNode' = after.domNode
      /\ last' = Handled("mousedown", event)
      /\ UNCHANGED pinchVars

(***************************************************************************)
(* SelectingRect.handleMouseMove.                                          *)
(***************************************************************************)
\* faulty variant: the mouse need not be down
MoveIgnored_whileUp(isDown, down) ==
  \/ down = undefined
  \/ down.target # targetSVGDoc

\* the conditions under which handleMouseMove returns early
MoveIgnored(isDown, down) ==
  \/ ~isDown
  \/ down = undefined
  \/ down.target # targetSVGDoc

SelectingRect_handleMouseMove(event) ==
  /\ IF MoveIgnored(mouseIsDown, lastMouseDown)
       THEN UNCHANGED <<domNode, isDrawn>>
       ELSE /\ domNode' = [visibility |-> "visible",
                           d |-> <<lastMouseDownX, lastMouseDownY,
                                   fromClientX(event.clientX),
                                   fromClientY(event.clientY)>>]
            /\ isDrawn' = TRUE
  /\ UNCHANGED <<selectedSVGElements, lastMouseDown, lastMouseDownX,
                 lastMouseDownY, mouseIsDown>>

mousemove ==
  \E event \in MouseEvent({targetSVGDoc}) :
    /\ SelectingRect_handleMouseMove(event)
    /\ last' = Handled("mousemove", undefined)
    /\ UNCHANGED pinchVars

(***************************************************************************)
(* SelectingRect.handleMouseUp.                                            *)
(***************************************************************************)
\* faulty variant: the box starts at the mouse down point and is as wide and
\* as high as the mouse has travelled, which is negative up and to the left
coveredBox_fromDownPoint(downX, downY, mouseUpX, mouseUpY) ==
  [x |-> downX, y |-> downY, width |-> mouseUpX - downX, height |-> mouseUpY - downY]

\* the box covered by the selecting rect
coveredBox(downX, downY, mouseUpX, mouseUpY) ==
  BoxBounding({[x |-> downX, y |-> downY, width |-> 0, height |-> 0],
               [x |-> mouseUpX, y |-> mouseUpY, width |-> 0, height |-> 0]})

\* faulty variant: the elements that the box touches
coveredEles_touched(box) ==
  {ele \in children(targetSVGDoc) :
     /\ isSVGGraphicsElements(ele)
     /\ getBBox(ele).x <= box.x + box.width
     /\ box.x <= getBBox(ele).x + getBBox(ele).width
     /\ getBBox(ele).y <= box.y + box.height
     /\ box.y <= getBBox(ele).y + getBBox(ele).height}

\* the elements covered by the selecting rect
coveredEles(box) ==
  {ele \in children(targetSVGDoc) :
     isSVGGraphicsElements(ele) /\ isBoundedBy(getBBox(ele), box)}

\* faulty variant: clears unless shift is held at the mouse up
Select_shiftAtMouseUp(selected, down, event, covered) ==
  (IF ~event.shiftKey THEN {} ELSE selected) \cup covered

\* the last two statements of handleMouseUp: clear unless shift was held
\* at the last mouse down, then add the covered elements
Select(selected, down, event, covered) ==
  (IF ~down.shiftKey THEN {} ELSE selected) \cup covered

\* faulty variant: isDrawn is not reset
SelectingRect_handleMouseUp_staysDrawn(event) ==
  /\ mouseIsDown' = FALSE
  /\ domNode' = [domNode EXCEPT !.visibility = "hidden"]
  /\ IF ~isDrawn
       THEN UNCHANGED selectedSVGElements
       ELSE selectedSVGElements' =
              Select(selectedSVGElements, lastMouseDown, event,
                     coveredEles(coveredBox(lastMouseDownX, lastMouseDownY,
                                            fromClientX(event.clientX),
                                            fromClientY(event.clientY))))
  /\ UNCHANGED <<lastMouseDown, lastMouseDownX, lastMouseDownY, isDrawn>>

SelectingRect_handleMouseUp(event) ==
  /\ mouseIsDown' = FALSE
  /\ domNode' = [domNode EXCEPT !.visibility = "hidden"]
  /\ isDrawn' = FALSE
  /\ IF ~isDrawn
       THEN UNCHANGED selectedSVGElements
       ELSE selectedSVGElements' =
              Select(selectedSVGElements, lastMouseDown, event,
                     coveredEles(coveredBox(lastMouseDownX, lastMouseDownY,
                                            fromClientX(event.clientX),
                                            fromClientY(event.clientY))))
  /\ UNCHANGED <<lastMouseDown, lastMouseDownX, lastMouseDownY>>

mouseup ==
  \E event \in MouseEvent({targetSVGDoc}) :
    /\ SelectingRect_handleMouseUp(event)
    /\ last' = Handled("mouseup", Where(event))
    /\ UNCHANGED pinchVars

Next ==
  \/ mousedown
  \/ mousemove
  \/ mouseup

Spec == Init /\ [][Next]_vars

(***************************************************************************)
(* PinchToScaleFeature.handleWheel.                                        *)
(***************************************************************************)
\* event.target instanceof Node
isNode(value) == value \in Nodes

(***************************************************************************)
(* Faulty variants of the steps of handleWheel.                             *)
(***************************************************************************)
\* responds without the control key held
Responds_withoutCtrlKey(feature, event) ==
  /\ event.target \in Nodes
  /\ contains(IF feature.revision = "settable"
                THEN feature.interactionScope ELSE targetSVGDoc, event.target)

\* the wheel delta as it comes
clampedDeltaY_unclamped(event) == Whole(event.deltaY)

\* the wheel delta limited from above only
clampedDeltaY_oneSided(event) ==
  IF event.deltaY > deltaYLimit THEN Whole(deltaYLimit) ELSE Whole(event.deltaY)

\* a scaling that is not finite is kept
reasonable_keepsNonFinite(rev, newScaling) ==
  clamp(newScaling, minScaling(rev), Whole(maxScaling))


\* the feature as handleWheel meets it
Feature ==
  [revision |-> revision, scaling |-> scaling,
   horizontalScrollbar |-> horizontalScrollbar,
   verticalScrollbar |-> verticalScrollbar,
   interactionScope |-> interactionScope]

\* handleWheel does not return early
Responds(feature, event) ==
  /\ event.ctrlKey
  /\ isNode(event.target)
  /\ contains(IF feature.revision = "settable"
                THEN feature.interactionScope ELSE targetSVGDoc, event.target)

\* the wheel delta within its limits
clampedDeltaY(event) ==
  clamp(Whole(event.deltaY), Whole(-deltaYLimit), Whole(deltaYLimit))

\* the factor to change the scaling by
changeFactor(rev, deltaY, currentScaling) ==
  IF rev = "heightBased"
    THEN Minus(Whole(1), Over(Times(Whole(deltaYMultiplier), deltaY),
                              clientHeight(currentScaling)))
    ELSE Minus(Whole(1), Over(deltaY, Whole(deltaYDivisor)))

\* ensure that the new scaling factor is a reasonable value
reasonable(rev, newScaling) ==
  clamp(IF isFinite(newScaling) THEN newScaling ELSE Whole(1),
        minScaling(rev), Whole(maxScaling))

\* the factor to change the scroll positions by: the height based revision
\* does not account for any clamping of the new scaling factor
scrollFactor(rev, factor, newScaling, currentScaling) ==
  IF rev = "heightBased" THEN factor ELSE Over(newScaling, currentScaling)

\* a scrollbar with its thumb center multiplied, when the scrollbar is defined
scrolled(scrollbar, factor) ==
  IF scrollbar.defined
    THEN [scrollbar EXCEPT !.center = Times(factor, @)]
    ELSE scrollbar

\* what handleWheel leaves behind: the scaling, the scrollbars and whether
\* event.preventDefault was called
PinchToScaleFeature_handleWheel(feature, event) ==
  IF ~Responds(feature, event)
    THEN [scaling |-> feature.scaling,
          horizontalScrollbar |-> feature.horizontalScrollbar,
          verticalScrollbar |-> feature.verticalScrollbar,
          defaultPrevented |-> FALSE]
    ELSE LET factor == changeFactor(feature.revision, clampedDeltaY(event),
                                    feature.scaling)
             newScaling == reasonable(feature.revision,
                                      Times(factor, feature.scaling))
             by == scrollFactor(feature.revision, factor, newScaling,
                                feature.scaling)
         IN  [scaling |-> newScaling,
              horizontalScrollbar |-> scrolled(feature.horizontalScrollbar, by),
              verticalScrollbar |-> scrolled(feature.verticalScrollbar, by),
              defaultPrevented |-> TRUE]

\* window wheel: at most MaxWheels events are responded to
wheel ==
  \E event \in WheelEvent :
    LET after == PinchToScaleFeature_handleWheel(Feature, event)
    IN  /\ Responds(Feature, event) => wheels < MaxWheels
        /\ scaling' = after.scaling
        /\ horizontalScrollbar' = after.horizontalScrollbar
        /\ verticalScrollbar' = after.verticalScrollbar
        /\ wheels' = IF after.defaultPrevented THEN wheels + 1 ELSE wheels
        /\ lastWheel' = [op |-> "wheel", event |-> event,
                         defaultPrevented |-> after.defaultPrevented,
                         scaling |-> scaling,
                         horizontalScrollbar |-> horizontalScrollbar,
                         verticalScrollbar |-> verticalScrollbar]
        /\ UNCHANGED <<revision, interactionScope>>
        /\ UNCHANGED mouseVars

\* what the history holds after an assignment to a settable property
Assigned ==
  [op |-> "assign", event |-> noWheel, defaultPrevented |-> FALSE,
   scaling |-> scaling, horizontalScrollbar |-> horizontalScrollbar,
   verticalScrollbar |-> verticalScrollbar]

\* an assignment to the settable property horizontalScrollbar
setHorizontalScrollbar ==
  /\ revision = "settable"
  /\ \E scrollbar \in HorizontalScrollbars \cup {noScrollbar} :
       horizontalScrollbar' = scrollbar
  /\ lastWheel' = Assigned
  /\ UNCHANGED <<revision, scaling, verticalScrollbar, interactionScope, wheels>>
  /\ UNCHANGED mouseVars

\* an assignment to the settable property verticalScrollbar
setVerticalScrollbar ==
  /\ revision = "settable"
  /\ \E scrollbar \in VerticalScrollbars \cup {noScrollbar} :
       verticalScrollbar' = scrollbar
  /\ lastWheel' = Assigned
  /\ UNCHANGED <<revision, scaling, horizontalScrollbar, interactionScope, wheels>>
  /\ UNCHANGED mouseVars

\* an assignment to the settable property interactionScope
setInteractionScope ==
  /\ revision = "settable"
  /\ \E scope \in InteractionScopes : interactionScope' = scope
  /\ lastWheel' = Assigned
  /\ UNCHANGED <<revision, scaling, horizontalScrollbar, verticalScrollbar, wheels>>
  /\ UNCHANGED mouseVars

NextPinchToScale ==
  \/ wheel
  \/ setHorizontalScrollbar
  \/ setVerticalScrollbar
  \/ setInteractionScope

\* the feature right after construction, on any document and scrollbars
InitPinchToScale ==
  /\ InitMouse
  /\ revision \in Revisions
  /\ scaling \in InitialScalings
  /\ horizontalScrollbar \in
       IF revision = "settable" THEN {noScrollbar} ELSE HorizontalScrollbars
  /\ verticalScrollbar \in
       IF revision = "settable" THEN {noScrollbar} ELSE VerticalScrollbars
  /\ interactionScope = targetSVGDoc
  /\ wheels = 0
  /\ lastWheel = [op |-> "init", event |-> noWheel, defaultPrevented |-> FALSE,
                  scaling |-> scaling,
                  horizontalScrollbar |-> horizontalScrollbar,
                  verticalScrollbar |-> verticalScrollbar]

SpecPinchToScale == InitPinchToScale /\ [][NextPinchToScale]_vars

(***************************************************************************)
(* Properties of PinchToScaleFeature.                                      *)
(***************************************************************************)
\* a wheel event was handled last and the feature responded to it
Responded == lastWheel.op = "wheel" /\ lastWheel.defaultPrevented

\* a wheel event was handled last and handleWheel returned early
Ignored == lastWheel.op = "wheel" /\ ~lastWheel.defaultPrevented

\* min <= value <= max
Within(value, min, max) ==
  isFinite(value) /\ ~LessThan(value, min) /\ ~LessThan(max, value)

\* the wheel delta of the last event, limited to -25..25
LimitedDelta ==
  IF lastWheel.event.deltaY > 25 THEN 25
  ELSE IF lastWheel.event.deltaY < -25 THEN -25
  ELSE lastWheel.event.deltaY

\* 1 - d/150 for the limited wheel delta d of the last event
FactorBy150 == Fraction(150 - LimitedDelta, 150)

\* 1 - 5d/h for the limited wheel delta d of the last event and the client
\* height h of the document as the event met it
FactorByHeight ==
  Minus(Whole(1), Over(Whole(5 * LimitedDelta), clientHeight(lastWheel.scaling)))

\* the change factor of the last event in the revision constructed
Factor == IF revision = "heightBased" THEN FactorByHeight ELSE FactorBy150

\* the scaling that the last event asked for, before it is made reasonable
Candidate == Times(Factor, lastWheel.scaling)

(* C11: after every wheel event responded to, whatever the delta and the
   scaling before, the scaling lies within 0.01..500, and it is 1 when the
   scaling asked for is not finite; so the scaling lies within 0.01..500
   once any wheel event has been responded to. *)
C11_ScalingWithinBounds ==
  /\ Responded =>
       /\ Within(scaling, Fraction(1, 100), Whole(500))
       /\ ~isFinite(Candidate) => scaling = Whole(1)
  /\ wheels >= 1 => Within(scaling, Fraction(1, 100), Whole(500))

\* the second wheel event responded to asked for a scaling of more than 500
C11_Witness ==
  /\ Responded
  /\ wheels = 2
  /\ LessThan(Whole(500), Candidate)
  /\ scaling = Whole(500)

\* the thumb center that C12 expects of a scrollbar
Compensated(scrollbar) ==
  Times(scrollbar.center, Over(scaling, lastWheel.scaling))

(* C12: after every wheel event responded to, the thumb center of each
   defined scrollbar is its thumb center before times the scaling after over
   the scaling before, for the horizontal and for the vertical scrollbar,
   also when the scaling asked for was clamped. *)
C12_ScrollbarsFollowScaling ==
  Responded =>
    /\ horizontalScrollbar.defined =>
         horizontalScrollbar.center = Compensated(lastWheel.horizontalScrollbar)
    /\ verticalScrollbar.defined =>
         verticalScrollbar.center = Compensated(lastWheel.verticalScrollbar)

\* the scope that wheel events are responded to in
Scope == IF revision = "settable" THEN interactionScope ELSE targetSVGDoc

(* C13: a wheel event without the control key, or with a target outside of
   the interaction scope (the target SVG document unless set otherwise),
   leaves the scaling and both thumb centers as they were and does not have
   preventDefault called. *)
C13_IgnoredWheelChangesNothing ==
  (/\ lastWheel.op = "wheel"
   /\ ~lastWheel.event.ctrlKey \/ ~contains(Scope, lastWheel.event.target)) =>
    /\ scaling = lastWheel.scaling
    /\ horizontalScrollbar = lastWheel.horizontalScrollbar
    /\ verticalScrollbar = lastWheel.verticalScrollbar
    /\ ~lastWheel.defaultPrevented

\* a wheel event with the control key held landed on the document while the
\* interaction scope was the group, after the scaling had changed
C13_Witness ==
  /\ Ignored
  /\ lastWheel.event.ctrlKey
  /\ lastWheel.event.target = targetSVGDoc
  /\ interactionScope = "g"
  /\ horizontalScrollbar.defined
  /\ wheels >= 1

\* the last event met the scaling 2 and had the wheel delta -150
From2ByMinus150 ==
  /\ Responded
  /\ lastWheel.scaling = Whole(2)
  /\ lastWheel.event.deltaY = -150

(* C14, as stated: with the scaling 2, a wheel event responded to with the
   wheel delta -150 gives the scaling 4 and doubles the thumb center of the
   horizontal scrollbar. *)
C14_Original ==
  From2ByMinus150 =>
    /\ scaling = Whole(4)
    /\ horizontalScrollbar.defined =>
         horizontalScrollbar.center =
           Times(Whole(2), lastWheel.horizontalScrollbar.center)

(* C14, amended: with the scaling 2, a wheel event responded to with the
   wheel delta -150 has its delta limited to -25; the change factor is 7/6
   (in the height based revision 1 + 125/h for the client height h of the
   document), the scaling becomes 2 times that factor, 7/3, and the thumb
   center of the horizontal scrollbar is multiplied by that factor. *)
C14_Amended ==
  From2ByMinus150 =>
    LET f == IF revision = "heightBased"
               THEN Fraction(clientHeight(Whole(2)).num + 125,
                             clientHeight(Whole(2)).num)
               ELSE Fraction(7, 6)
    IN  /\ scaling = Times(Whole(2), f)
        /\ revision # "heightBased" => scaling = Fraction(7, 3)
        /\ horizontalScrollbar.defined =>
             horizontalScrollbar.center =
               Times(f, lastWheel.horizontalScrollbar.center)

\* the thumb center 60 has become 70
C14_Witness ==
  /\ From2ByMinus150
  /\ lastWheel.horizontalScrollbar = Scrollbar(60)
  /\ horizontalScrollbar = Scrollbar(70)
  /\ scaling = Fraction(7, 3)

\* what the wheel events responded to in this state leave behind, for the
\* given wheel deltas
LeftBehind(deltaYs) ==
  {PinchToScaleFeature_handleWheel(Feature, event) :
     event \in {e \in WheelEvent : Responds(Feature, e) /\ e.deltaY \in deltaYs}}

\* any two wheel events with wheel deltas both at least 25, or both at most
\* -25, leave the same scaling and thumb centers behind, in every state in
\* which a wheel event can still be responded to
SaturatedAlike ==
  wheels < MaxWheels =>
    /\ Cardinality(LeftBehind({d \in DeltaYs : d >= 25})) <= 1
    /\ Cardinality(LeftBehind({d \in DeltaYs : d <= -25})) <= 1

(* C17, as stated: two wheel events responded to in the same state, with
   wheel deltas both at least 25 or both at most -25, leave the same scaling
   and thumb centers; and when the scaling is not clamped, a wheel event
   responded to multiplies the scaling by 1 - d/150 for the limited wheel
   delta d, a factor between 5/6 and 7/6. *)
C17_Original ==
  /\ SaturatedAlike
  /\ Responded =>
       /\ Within(FactorBy150, Fraction(5, 6), Fraction(7, 6))
       /\ Within(Times(FactorBy150, lastWheel.scaling),
                 minScaling(revision), Whole(500)) =>
            scaling = Times(FactorBy150, lastWheel.scaling)

(* C17, amended: two wheel events responded to in the same state, with
   wheel deltas both at least 25 or both at most -25, leave the same scaling
   and thumb centers; and when the scaling is not clamped, a wheel event
   responded to multiplies the scaling by 1 - d/150 for the limited wheel
   delta d, a factor between 5/6 and 7/6, except in the height based
   revision, where it multiplies the scaling by 1 - 5d/h for the client
   height h of the document. *)
C17_Amended ==
  /\ SaturatedAlike
  /\ Responded =>
       /\ revision # "heightBased" =>
            Within(FactorBy150, Fraction(5, 6), Fraction(7, 6))
       /\ Within(Candidate, minScaling(revision), Whole(500)) =>
            scaling = Candidate

\* the scaling 2 was multiplied by 9/10 and by 7/6, without clamping
C17_Witness ==
  /\ Responded
  /\ revision # "heightBased"
  /\ wheels = 2
  /\ lastWheel.event.deltaY = -150
  /\ lastWheel.scaling = Fraction(9, 5)
  /\ scaling = Fraction(21, 10)




(***************************************************************************)
(* Properties of ClickSelectTool.                                          *)
(***************************************************************************)
\* a mouse down was handled last
MouseDowned == last.op = "mousedown"

\* the last event landed on a graphical element inside the target SVG document
OnElement ==
  /\ last.event.target # targetSVGDoc
  /\ isSVGGraphicsElements(last.event.target)
  /\ contains(targetSVGDoc, last.event.target)

(* C1, as stated: after a mouse down without shift the selection is exactly
   the clicked element when the target is a graphical element inside the
   target SVG document, and is empty when the target is the document itself,
   whatever the selection was before. *)
C1_Original ==
  (MouseDowned /\ ~last.event.shiftKey) =>
    /\ OnElement => selectedSVGElements = {last.event.target}
    /\ last.event.target = targetSVGDoc => selectedSVGElements = {}

(* C1, amended: after a mouse down without shift the selection is exactly
   the clicked element when the target is a graphical element inside the
   target SVG document that was not selected, is what it was when the
   clicked element was already selected, and is empty when the target is the
   document itself. *)
C1_Amended ==
  (MouseDowned /\ ~last.event.shiftKey) =>
    /\ (OnElement /\ last.event.target \notin last.before)
         => selectedSVGElements = {last.event.target}
    /\ (OnElement /\ last.event.target \in last.before)
         => selectedSVGElements = last.before
    /\ last.event.target = targetSVGDoc => selectedSVGElements = {}

\* a click without shift on "a" replaced the selection {"g"} by {"a"}
C1_Witness ==
  /\ MouseDowned /\ ~last.event.shiftKey
  /\ last.event.target = "a"
  /\ last.before = {"g"}
  /\ selectedSVGElements = {"a"}

(* C2: a mouse down with shift held on a graphical element of the target SVG
   document that is selected removes exactly that element; the membership of
   every other element is unchanged. *)
C2_ShiftClickRemoves ==
  (MouseDowned /\ last.event.shiftKey /\ OnElement
     /\ last.event.target \in last.before) =>
    /\ last.event.target \notin selectedSVGElements
    /\ \A ele \in Nodes \ {last.event.target} :
         ele \in selectedSVGElements <=> ele \in last.before

\* a shift click on "a" took it out of the selection {"a", "g"}
C2_Witness ==
  /\ MouseDowned /\ last.event.shiftKey
  /\ last.event.target = "a"
  /\ last.before = {"a", "g"}
  /\ selectedSVGElements = {"g"}

(* C3: a mouse down with shift held on a graphical element of the target SVG
   document that is not selected adds that element and removes nothing: the
   selection afterwards is the selection before plus the clicked element. *)
C3_ShiftClickAdds ==
  (MouseDowned /\ last.event.shiftKey /\ OnElement
     /\ last.event.target \notin last.before) =>
    selectedSVGElements = last.before \cup {last.event.target}

\* a shift click on "a" added it to the selection {"g"}
C3_Witness ==
  /\ MouseDowned /\ last.event.shiftKey
  /\ last.event.target = "a"
  /\ last.before = {"g"}
  /\ selectedSVGElements = {"a", "g"}

(* C4: a mouse down without shift on an element that is already selected
   leaves the selection unchanged, so a selection of several elements
   survives the click. *)
C4_ClickOnSelectedKeeps ==
  (MouseDowned /\ ~last.event.shiftKey /\ OnElement
     /\ last.event.target \in last.before) =>
    selectedSVGElements = last.before

\* a click without shift on "a" left the selection {"a", "g"} as it was
C4_Witness ==
  /\ MouseDowned /\ ~last.event.shiftKey
  /\ last.event.target = "a"
  /\ last.before = {"a", "g"}
  /\ selectedSVGElements = {"a", "g"}

(* C5: a mouse down on the target SVG document itself empties the selection
   when shift is not held and leaves it unchanged when shift is held; in
   neither case is an element added. *)
C5_ClickOnDocument ==
  (MouseDowned /\ last.event.target = targetSVGDoc) =>
    /\ ~last.event.shiftKey => selectedSVGElements = {}
    /\ last.event.shiftKey => selectedSVGElements = last.before
    /\ selectedSVGElements \subseteq last.before

\* a shift click on the document left the selection {"a", "g"} as it was
C5_Witness ==
  /\ MouseDowned /\ last.event.shiftKey
  /\ last.event.target = targetSVGDoc
  /\ last.before = {"a", "g"}
  /\ selectedSVGElements = {"a", "g"}

(* C6: a mouse down on a node that is not a graphical element, or on a
   graphical element outside of the target SVG document, leaves the selection
   unchanged, for every selection and with or without shift. *)
C6_OtherTargetsIgnored ==
  (MouseDowned /\ (~isSVGGraphicsElements(last.event.target)
                     \/ ~contains(targetSVGDoc, last.event.target))) =>
    selectedSVGElements = last.before

\* a click without shift on the outside element left {"a", "g"} as it was
C6_Witness ==
  /\ MouseDowned /\ ~last.event.shiftKey
  /\ last.event.target = "out"
  /\ isSVGGraphicsElements("out") /\ ~contains(targetSVGDoc, "out")
  /\ last.before = {"a", "g"}
  /\ selectedSVGElements = {"a", "g"}

(***************************************************************************)
(* Properties of SelectingRect.                                            *)
(***************************************************************************)
\* a mouse up was handled last and it met the selecting rect drawn
DrawnReleased == last.op = "mouseup" /\ last.wasDrawn

\* the document coordinates of a client position
DocX(clientX) ==
  CHOOSE k \in 0..MaxX :
    targetSVGDocCoordinateSystem.clientLeft
      + targetSVGDocCoordinateSystem.horizontalScaling * k = clientX

DocY(clientY) ==
  CHOOSE k \in 0..MaxY :
    targetSVGDocCoordinateSystem.clientTop
      + targetSVGDocCoordinateSystem.verticalScaling * k = clientY

Least(m, n) == IF m <= n THEN m ELSE n
Most(m, n) == IF m <= n THEN n ELSE m

\* the sides of the box spanned by the last mouse down and the last mouse up
SpanLeft == Least(DocX(lastMouseDown.clientX), DocX(last.event.clientX))
SpanRight == Most(DocX(lastMouseDown.clientX), DocX(last.event.clientX))
SpanTop == Least(DocY(lastMouseDown.clientY), DocY(last.event.clientY))
SpanBottom == Most(DocY(lastMouseDown.clientY), DocY(last.event.clientY))

\* the bounding box of the element lies within the spanned box
LiesWithin(ele) ==
  /\ SpanLeft <= getBBox(ele).x
  /\ getBBox(ele).x + getBBox(ele).width <= SpanRight
  /\ SpanTop <= getBBox(ele).y
  /\ getBBox(ele).y + getBBox(ele).height <= SpanBottom

\* the bounding box of the element and the spanned box have a point in common
Overlaps(ele) ==
  /\ getBBox(ele).x <= SpanRight
  /\ SpanLeft <= getBBox(ele).x + getBBox(ele).width
  /\ getBBox(ele).y <= SpanBottom
  /\ SpanTop <= getBBox(ele).y + getBBox(ele).height

\* the direct graphical children of the target SVG document within the spanned box
Spanned ==
  {ele \in Nodes : /\ parentNode(ele) = targetSVGDoc
                   /\ isSVGGraphicsElements(ele)
                   /\ LiesWithin(ele)}

(* C7: in every sequence of mouse down, mouse move and mouse up events, a
   mouse up that follows a mouse down with no mouse move between them does
   not change the selection, whatever came before that mouse down. *)
C7_ClickNeverSelects ==
  [][(last.op = "mousedown" /\ last'.op = "mouseup")
       => selectedSVGElements' = selectedSVGElements]_vars

(* C8: on a mouse up that meets the selecting rect drawn, the elements added
   to the selection are exactly the direct graphical children of the target
   SVG document whose bounding box lies within the box spanned by the mouse
   down point and the mouse up point (the last mouse down, in document
   coordinates): an element that the box only overlaps is not added, and an
   element nested below a direct child is not added. *)
C8_AddsExactlyTheSpanned ==
  DrawnReleased =>
    /\ Spanned \subseteq selectedSVGElements
    /\ (selectedSVGElements \ last.before) \subseteq Spanned

\* a drag down the right side of the square added "g" alone: "a" is only
\* overlapped, and "n" lies within the box but is nested inside "g"
C8_Witness ==
  /\ DrawnReleased
  /\ last.before = {}
  /\ selectedSVGElements = {"g"}
  /\ Overlaps("a") /\ ~LiesWithin("a")
  /\ LiesWithin("n") /\ parentNode("n") # targetSVGDoc

(* C9: the selection that a drag produces does not depend on its direction:
   the selection after a drag from P to Q is the one that the drag from Q to
   P yields from the same selection with the same shift state, and every
   element that lies within the spanned box is selected. *)
C9_DirectionIndependent ==
  DrawnReleased =>
    /\ selectedSVGElements =
         (IF lastMouseDown.shiftKey THEN last.before ELSE {})
           \cup coveredEles(coveredBox(fromClientX(last.event.clientX),
                                       fromClientY(last.event.clientY),
                                       lastMouseDownX, lastMouseDownY))
    /\ \A ele \in children(targetSVGDoc) :
         (isSVGGraphicsElements(ele) /\ LiesWithin(ele))
           => ele \in selectedSVGElements

\* a drag up and to the left, across the whole square, selected "a"
C9_Witness ==
  /\ DrawnReleased
  /\ DocX(last.event.clientX) < DocX(lastMouseDown.clientX)
  /\ DocY(last.event.clientY) < DocY(lastMouseDown.clientY)
  /\ "a" \notin last.before
  /\ "a" \in selectedSVGElements

(* C10: when a drawn drag is released, the selection from before is kept if
   shift was held at the mouse down of the gesture (the last mouse down) and
   is cleared first if it was not; whether shift is held at the mouse moves
   or at the mouse up makes no difference. *)
C10_ShiftAtMouseDownKeeps ==
  DrawnReleased =>
    /\ lastMouseDown.shiftKey => last.before \subseteq selectedSVGElements
    /\ ~lastMouseDown.shiftKey =>
         \A ele \in last.before \ Spanned : ele \notin selectedSVGElements

\* a drag started with shift held added "g" and kept "a", which it did not cover
C10_Witness ==
  /\ DrawnReleased
  /\ lastMouseDown.shiftKey
  /\ last.before = {"a"}
  /\ "a" \notin Spanned
  /\ selectedSVGElements = {"a", "g"}

(***************************************************************************)
(* Properties of the states of SelectingRect.                              *)
(***************************************************************************)
\* the mouse down landed on an element inside the target SVG document
OnChild(down) ==
  /\ down # undefined
  /\ down.target # targetSVGDoc
  /\ contains(targetSVGDoc, down.target)

(* C15: while the last mouse down did not land on the target SVG document
   itself, or while the mouse is not down, a mouse move leaves the d
   attribute, the visibility and isDrawn as they were; so while the mouse is
   down after a mouse down on a child element the selecting rect is never
   visible, and the mouse up that follows leaves the selection as it was. *)
C15_OnlyDragsFromTheDocumentDraw ==
  [][/\ (last'.op = "mousemove" /\ MoveIgnored(mouseIsDown, lastMouseDown)) =>
          (domNode' = domNode /\ isDrawn' = isDrawn)
     /\ (mouseIsDown' /\ OnChild(lastMouseDown')) =>
          domNode'.visibility = "hidden"
     /\ (last'.op = "mouseup" /\ mouseIsDown /\ OnChild(lastMouseDown)) =>
          selectedSVGElements' = selectedSVGElements]_vars

(* C16: right after every mouse up the mouse is not down, isDrawn is false
   and the selecting rect is hidden; a mouse move while the mouse is still
   not down draws nothing; and a mouse up that meets no drawn selecting rect
   leaves the selection as it was. *)
C16_IdleAfterMouseUp ==
  /\ last.op = "mouseup" =>
       /\ ~mouseIsDown
       /\ ~isDrawn
       /\ domNode.visibility = "hidden"
  /\ (last.op = "mousemove" /\ ~mouseIsDown) =>
       /\ ~isDrawn
       /\ domNode.visibility = "hidden"
  /\ (last.op = "mouseup" /\ ~last.wasDrawn) =>
       selectedSVGElements = last.before

\* a mouse up met the selecting rect hidden again after an earlier drag had
\* selected both elements
C16_Witness ==
  /\ last.op = "mouseup"
  /\ ~last.wasDrawn
  /\ domNode.d # <<>>
  /\ selectedSVGElements = {"a", "g"}
  /\ ~mouseIsDown

(* C18: in every state the selecting rect is visible exactly when isDrawn is
   true; isDrawn is true only while the mouse is down and a mouse down has
   been recorded; the selecting rect is not visible before the first mouse
   down nor right after a mouse up. *)
C18_VisibleIffDrawn ==
  /\ domNode.visibility = "visible" <=> isDrawn
  /\ isDrawn => (mouseIsDown /\ lastMouseDown # undefined)
  /\ lastMouseDown = undefined => domNode.visibility = "hidden"
  /\ last.op = "mouseup" => domNode.visibility = "hidden"

\* the selecting rect is visible while the mouse is down
C18_Witness ==
  /\ isDrawn
  /\ domNode.visibility = "visible"
  /\ mouseIsDown
  /\ last.op = "mousemove"
  /\ domNode.d = <<0, 0, 1, 1>>

(***************************************************************************)
(* Properties of both tools together.                                      *)
(***************************************************************************)
(* C19: the state after a mouse down is the same whichever of the two mouse
   down listeners runs first; the mouse down listener of SelectingRect and
   the mouse move listener leave the selection as it was; and a drag from
   the target SVG document with shift held keeps every element selected
   that was selected: the mouse down leaves the selection as it was and the
   mouse up only adds to it. *)
C19_ListenersIndependent ==
  [][/\ last'.op = "mousedown" =>
          /\ \A order \in ListenerOrders :
               Tools' = dispatch(order, Tools, last'.event)
          /\ SelectingRect_handleMouseDown(Tools, last'.event).selectedSVGElements
               = selectedSVGElements
     /\ last'.op = "mousemove" => selectedSVGElements' = selectedSVGElements
     /\ (/\ last'.op = "mousedown"
         /\ last'.event.target = targetSVGDoc
         /\ last'.event.shiftKey) =>
          selectedSVGElements' = selectedSVGElements
     /\ (/\ last'.op = "mouseup"
         /\ lastMouseDown.target = targetSVGDoc
         /\ lastMouseDown.shiftKey) =>
          selectedSVGElements \subseteq selectedSVGElements']_vars

\* a mouse down that both listeners acted on: the click deselected an
\* element and the selecting rect recorded the mouse down at another place
C19_Witness ==
  /\ MouseDowned
  /\ last.event.target = "a"
  /\ last.event.shiftKey
  /\ last.before = {"a", "g"}
  /\ selectedSVGElements = {"g"}
  /\ lastMouseDown = last.event
  /\ lastMouseDownX = 1
  /\ lastMouseDownY = 1
  /\ mouseIsDown

(* C20: two mouse downs in a row with shift held on the same graphical
   element of the target SVG document leave the selection as it was before
   the first of them. *)
C20_ShiftClickTwice ==
  (MouseDowned /\ last.twice.is /\ last.event.shiftKey /\ OnElement) =>
    selectedSVGElements = last.twice.before

\* the second shift click on a put it back next to g
C20_Witness ==
  /\ MouseDowned
  /\ last.twice.is
  /\ last.event.shiftKey
  /\ last.event.target = "a"
  /\ last.twice.before = {"a", "g"}
  /\ last.before = {"g"}
  /\ selectedSVGElements = {"a", "g"}

=============================================================================
